---- MODULE Spec2Model ----
(***************************************************************************)
(* Point-in-time portfolio pipeline of Quant_Portfolio: rule screening     *)
(* (portfolio_creation.py), weighting (portfolio_weighting.py), the        *)
(* weight-refresh script (run_portfolio_weighting.py) and the backtester   *)
(* (backtester.py), over the tables of db_schema.py.                       *)
(*                                                                         *)
(* Python values are modelled as follows.                                  *)
(*   str    a sequence of one-character strings, so that str(), int() and  *)
(*          endswith() are computed and not assumed;                       *)
(*   float  a record [k, n, d]: k = "fin" is the rational n/d (d > 0, in   *)
(*          lowest terms), k = "inf" is +/-infinity (sign in n), k = "nan" *)
(*          is NaN.  Rounding is not modelled: a finite result is exact.   *)
(*   date   its proleptic Gregorian ordinal (date.toordinal()).            *)
(***************************************************************************)
EXTENDS Integers, Sequences, FiniteSets, TLC

(***************************************************************************)
(* Floats                                                                  *)
(***************************************************************************)
Abs(x) == IF x < 0 THEN -x ELSE x

Sign(x) == IF x < 0 THEN -1 ELSE IF x > 0 THEN 1 ELSE 0

RECURSIVE GCD(_, _)
GCD(a, b) == IF b = 0 THEN a ELSE GCD(b, a % b)

NaN == [k |-> "nan", n |-> 0, d |-> 1]

Inf(s) == [k |-> "inf", n |-> s, d |-> 1]

Fin(n, d) ==
    LET g == GCD(Abs(n), Abs(d))
    IN  [k |-> "fin", n |-> Sign(d) * (n \div g), d |-> Abs(d) \div g]

IntF(i) == [k |-> "fin", n |-> i, d |-> 1]

IsNaN(x) == x.k = "nan"

IsFin(x) == x.k = "fin"

\* a + b in IEEE arithmetic
FAdd(a, b) ==
    IF IsNaN(a) \/ IsNaN(b) THEN NaN
    ELSE IF a.k = "inf" /\ b.k = "inf" THEN (IF a.n = b.n THEN a ELSE NaN)
    ELSE IF a.k = "inf" THEN a
    ELSE IF b.k = "inf" THEN b
    ELSE LET g == GCD(a.d, b.d)
         IN  Fin(a.n * (b.d \div g) + b.n * (a.d \div g), (a.d \div g) * b.d)

FNeg(a) == IF IsNaN(a) THEN NaN ELSE [a EXCEPT !.n = -a.n]

FSub(a, b) == FAdd(a, FNeg(b))

\* a / b in IEEE arithmetic (numpy: no exception, 0/0 = NaN, x/0 = +/-inf)
FDiv(a, b) ==
    IF IsNaN(a) \/ IsNaN(b) THEN NaN
    ELSE IF a.k = "inf" THEN (IF b.k = "inf" THEN NaN
                              ELSE Inf(a.n * (IF b.n < 0 THEN -1 ELSE 1)))
    ELSE IF b.k = "inf" THEN IntF(0)
    ELSE IF b.n = 0 THEN (IF a.n = 0 THEN NaN ELSE Inf(Sign(a.n)))
    ELSE LET g1 == GCD(Abs(a.n), Abs(b.n))
             g2 == GCD(a.d, b.d)
         IN  Fin((a.n \div g1) * (b.d \div g2), (a.d \div g2) * (b.n \div g1))

\* a < b ; every comparison with NaN is False
FLess(a, b) ==
    IF IsNaN(a) \/ IsNaN(b) THEN FALSE
    ELSE IF a.k = "inf" THEN a.n < 0 /\ ~(b.k = "inf" /\ b.n < 0)
    ELSE IF b.k = "inf" THEN b.n > 0
    ELSE a.n * b.d < b.n * a.d

FGreater(a, b) == FLess(b, a)

\* a == b ; NaN is equal to nothing
FEq(a, b) == ~IsNaN(a) /\ ~IsNaN(b) /\ a = b

\* builtin sum() over the values of a dict: NaN and inf propagate
RECURSIVE SumOver(_, _)
SumOver(f, S) ==
    IF S = {} THEN IntF(0)
    ELSE LET x == CHOOSE y \in S : TRUE
         IN  FAdd(f[x], SumOver(f, S \ {x}))

\* pandas Series.sum(): skipna=True leaves the NaN entries out
SeriesSum(f) == SumOver(f, {x \in DOMAIN f : ~IsNaN(f[x])})

\* floor of the square root of a natural number, by bisection on lo..hi
RECURSIVE ISqrtIn(_, _, _)
ISqrtIn(x, lo, hi) ==
    IF lo >= hi THEN lo
    ELSE LET mid == (lo + hi + 1) \div 2
         IN  IF mid * mid <= x THEN ISqrtIn(x, mid, hi) ELSE ISqrtIn(x, lo, mid - 1)

ISqrt(x) == ISqrtIn(x, 0, IF x < 46340 THEN x ELSE 46340)

\* sqrt of a float, kept to one decimal (the square root of a rational is
\* not a rational in general)
FSqrt(a) ==
    IF IsNaN(a) THEN NaN
    ELSE IF a.k = "inf" THEN (IF a.n > 0 THEN a ELSE NaN)
    ELSE IF a.n < 0 THEN NaN
    ELSE Fin(ISqrt((a.n * 100) \div a.d), 10)

FMul(a, b) ==
    IF IsNaN(a) \/ IsNaN(b) THEN NaN
    ELSE IF a.k = "inf" \/ b.k = "inf"
         THEN (IF a.n = 0 \/ b.n = 0 THEN NaN ELSE Inf(Sign(a.n) * Sign(b.n)))
    ELSE LET g1 == GCD(Abs(a.n), b.d)
             g2 == GCD(Abs(b.n), a.d)
         IN  Fin((a.n \div g1) * (b.n \div g2), (a.d \div g2) * (b.d \div g1))

(***************************************************************************)
(* Strings                                                                 *)
(***************************************************************************)
Digits == <<"0", "1", "2", "3", "4", "5", "6", "7", "8", "9">>

\* str(n) for a non-negative int
RECURSIVE Str(_)
Str(n) == IF n < 10 THEN <<Digits[n + 1]>>
          ELSE Str(n \div 10) \o <<Digits[(n % 10) + 1]>>

DigitVal(c) == (CHOOSE i \in 1..10 : Digits[i] = c) - 1

IsDigits(s) == Len(s) > 0 /\ \A i \in 1..Len(s) : \E j \in 1..10 : Digits[j] = s[i]

\* int(s) for a string of decimal digits; int() raises ValueError on the rest
RECURSIVE ParseInt(_)
ParseInt(s) == IF Len(s) = 1 THEN DigitVal(s[1])
               ELSE 10 * ParseInt(SubSeq(s, 1, Len(s) - 1)) + DigitVal(s[Len(s)])

\* s.endswith(suffix)
EndsWith(s, suffix) ==
    /\ Len(suffix) <= Len(s)
    /\ SubSeq(s, Len(s) - Len(suffix) + 1, Len(s)) = suffix

(***************************************************************************)
(* Tables of db_schema.py                                                  *)
(***************************************************************************)
VARIABLES
    metrics,                \* Metric: the names in the catalogue
    financials,             \* Financial: [company_id, metric, period_label, value]
    prices,                 \* Price: [company_id, date, close]
    rules,                  \* Rule: id -> rule_json["filters"]
    rules_id_seq,           \* the sequence of rules.id: what the next nextval returns
    yearly_portfolios,      \* YearlyPortfolio: [id, rule_id, year, weights]
    rule_backtest_metrics,  \* RuleBacktestMetric: [id, rule_id, year, scheme, ...]
    pc,                     \* the script that runs and where it stands
    session,                \* the running script's Session: what it loaded and has not committed
    call                    \* the last call of a function of the engines, with what it returned

vars == <<metrics, financials, prices, rules, rules_id_seq, yearly_portfolios,
          rule_backtest_metrics, pc, session, call>>

NumCompanies == 2

\* Company.id
Companies == 1..NumCompanies

\* the scheme names of compute_weights, as Python strings
equal == <<"e", "q", "u", "a", "l">>

market_cap == <<"m", "a", "r", "k", "e", "t", "_", "c", "a", "p">>

inverse_vol == <<"i", "n", "v", "e", "r", "s", "e", "_", "v", "o", "l">>

momentum == <<"m", "o", "m", "e", "n", "t", "u", "m">>

schemes == <<equal, market_cap, inverse_vol, momentum>>

\* period_label of an annual, a quarterly and a trailing-twelve-months fact
FY(y) == <<"F", "Y">> \o Str(y)

Q1FY(y) == <<"Q", "1", "F", "Y">> \o Str(y)

TTMQ2(y) == <<"T", "T", "M">> \o Str(y) \o <<"Q", "2">>

\* date(y, 1, 1).toordinal()
Jan1(y) == 365 * (y - 1) + (y - 1) \div 4 - (y - 1) \div 100 + (y - 1) \div 400 + 1

\* date(y, 12, 31).toordinal()
Dec31(y) == Jan1(y + 1) - 1

\* the elements of a list
Range(s) == {s[i] : i \in 1..Len(s)}

\* a function returned (ok) or raised
Ok(v) == [ok |-> TRUE, v |-> v]

Raise == [ok |-> FALSE, v |-> <<>>]

\* {str(k): v for k, v in weights.to_dict().items()}
StrKeys(f) ==
    [s \in {Str(c) : c \in DOMAIN f} |-> f[CHOOSE c \in DOMAIN f : Str(c) = s]]

(***************************************************************************)
(* portfolio_weighting.py                                                  *)
(***************************************************************************)
lookback_vol == 252

momentum_period == 252

\* the epsilon of inverse_vol, 1/EpsDen.  The source has 1e-8; the model
\* keeps it at 1e-3 so that the products of denominators stay inside TLC's
\* 32-bit integers.  What it is for is kept: 1/(0 + eps) is finite.
EpsDen == 1000

\* the dates of a set of price rows, ascending (sort_values('date'))
RECURSIVE SortedDates(_)
SortedDates(D) ==
    IF D = {} THEN <<>>
    ELSE LET m == CHOOSE x \in D : \A y \in D : x <= y
         IN  <<m>> \o SortedDates(D \ {m})

\* df[df['company_id'] == cid].sort_values('date')['close'] as a list of floats
Closes(rows, cid) ==
    LET mine == {p \in rows : p.company_id = cid}
        ds   == SortedDates({p.date : p \in mine})
    IN  [i \in 1..Len(ds) |-> IntF((CHOOSE p \in mine : p.date = ds[i]).close)]

\* Series.tail(n)
Tail_n(s, n) == IF Len(s) <= n THEN s ELSE SubSeq(s, Len(s) - n + 1, Len(s))

\* prices.pct_change().dropna(): the day-over-day changes, the first (NaN) row dropped
PctChange(s) == [i \in 1..(Len(s) - 1) |-> FSub(FDiv(s[i + 1], s[i]), IntF(1))]

\* Series.std(): the sample standard deviation (ddof = 1); NaN for fewer than
\* two values
Std(r) ==
    LET n    == Len(r)
        idx  == 1..n
        sum  == SumOver(r, idx)
        sq   == [i \in idx |-> FMul(r[i], r[i])]
        sum2 == SumOver(sq, idx)
    IN  IF n < 2 THEN NaN
        ELSE FSqrt(FDiv(FSub(FMul(IntF(n), sum2), FMul(sum, sum)), IntF(n * (n - 1))))

\* the price window without its upper end
PricesBetween_NoEnd(P, ids, start_date, end_date) ==
    {p \in P : p.company_id \in Range(ids) /\ start_date <= p.date}

\* Price.date.between(start_date, end_date), Price.company_id.in_(company_ids)
PricesBetween(P, ids, start_date, end_date) ==
    {p \in P : p.company_id \in Range(ids) /\ start_date <= p.date /\ p.date <= end_date}

\* Financial rows of the ids, of one metric, whose label ends with str(year - 1)
FinancialsOfPriorYear(F, ids, metric, year) ==
    {f \in F : /\ f.company_id \in ids
               /\ EndsWith(f.period_label, Str(year - 1))
               /\ f.metric = metric}

get_market_caps(M, F, company_ids, year) ==
    LET ids  == Range(company_ids)
        ones == [c \in ids |-> IntF(1)]
        df   == FinancialsOfPriorYear(F, ids, "market_cap", year)
    IN  IF "market_cap" \notin M THEN Ok(ones)
        ELSE IF df = {} THEN Ok(ones)
        \* reindex raises ValueError on an index with duplicate labels
        ELSE IF \E f, g \in df : f # g /\ f.company_id = g.company_id THEN Raise
        ELSE Ok([c \in ids |->
                 IF \E f \in df : f.company_id = c
                 THEN IntF((CHOOSE f \in df : f.company_id = c).value)
                 ELSE IntF(1)])

get_volatility(P, company_ids, year, lookback) ==
    LET end_date   == Jan1(year) - 1
        start_date == end_date - (lookback * 3) \div 2
        df         == PricesBetween(P, company_ids, start_date, end_date)
        vol(cid)   ==
            LET prc == Tail_n(Closes(df, cid), lookback)
            IN  IF Len(prc) < 2 THEN Fin(1, 5)
                ELSE FMul(Std(PctChange(prc)), FSqrt(IntF(252)))
    IN  IF df = {} THEN [c \in Range(company_ids) |-> IntF(1)]
        ELSE [c \in Range(company_ids) |-> vol(c)]

\* the momentum score of each company, before the clamp
mom_dict(P, company_ids, year, period) ==
    LET end_date   == Jan1(year) - 1
        start_date == end_date - period
        df         == PricesBetween(P, company_ids, start_date, end_date)
        mom(cid)   ==
            LET prc == Closes(df, cid)
            IN  IF Len(prc) < 2 THEN IntF(0)
                ELSE FSub(FDiv(prc[Len(prc)], prc[1]), IntF(1))
    IN  [c \in Range(company_ids) |-> mom(c)]

\* the momentum scores left as they are, negative ones included
Clamp_Identity(s) == s

\* mom_series[mom_series < 0] = 0
Clamp(s) == [c \in DOMAIN s |-> IF FLess(s[c], IntF(0)) THEN IntF(0) ELSE s[c]]

\* series / total
Normalize(s, total) == [c \in DOMAIN s |-> FDiv(s[c], total)]

momentum_weights(P, company_ids, year, period) ==
    LET mom_series == Clamp(mom_dict(P, company_ids, year, period))
        total      == SeriesSum(mom_series)
    IN  IF FGreater(total, IntF(0)) THEN Normalize(mom_series, total)
        ELSE [c \in Range(company_ids) |-> Fin(1, Len(company_ids))]

compute_weights(M, F, P, company_ids, year, scheme) ==
    IF company_ids = <<>> THEN Ok(<<>>)
    ELSE IF scheme = equal
         THEN Ok([s \in {Str(c) : c \in Range(company_ids)} |-> Fin(1, Len(company_ids))])
    ELSE IF scheme = market_cap
         THEN LET mcaps == get_market_caps(M, F, company_ids, year)
              IN  IF ~mcaps.ok THEN Raise
                  ELSE Ok(StrKeys(Normalize(mcaps.v, SeriesSum(mcaps.v))))
    ELSE IF scheme = inverse_vol
         THEN LET vols     == get_volatility(P, company_ids, year, lookback_vol)
                  inv_vols == [c \in DOMAIN vols |->
                               FDiv(IntF(1), FAdd(vols[c], Fin(1, EpsDen)))]
              IN  Ok(StrKeys(Normalize(inv_vols, SeriesSum(inv_vols))))
    ELSE IF scheme = momentum
         THEN Ok(StrKeys(momentum_weights(P, company_ids, year, momentum_period)))
    ELSE Raise

\* a mapping that stops after the first two schemes
compute_all_weights_FirstTwo(M, F, P, company_ids, year) ==
    Ok([s \in {equal, market_cap} |->
           [c \in {Str(i) : i \in Range(company_ids)} |-> Fin(1, Len(company_ids))]])

\* compute_all_weights: scheme name -> weight mapping; an exception of
\* compute_weights propagates
compute_all_weights(M, F, P, company_ids, year) ==
    LET one(s) == compute_weights(M, F, P, company_ids, year, s)
    IN  IF \E i \in 1..Len(schemes) : ~one(schemes[i]).ok THEN Raise
        ELSE Ok([s \in Range(schemes) |-> one(s).v])

(***************************************************************************)
(* The data the specifications draw their stores from                      *)
(***************************************************************************)
\* the formation years
Years == 2021..2022

BaseYear == CHOOSE y \in Years : \A z \in Years : y <= z

\* four trading days: three of the year before BaseYear, the last of them
\* December 31, and January 1 of BaseYear
TradingDays ==
    <<Dec31(BaseYear - 1) - 200, Dec31(BaseYear - 1) - 100, Dec31(BaseYear - 1),
      Jan1(BaseYear)>>

\* what a company can have on the four trading days: its close on each, 0
\* where it has no Price row
PriceProfiles ==
    { <<0, 0, 0, 0>>, <<0, 0, 100, 0>>, <<100, 0, 110, 0>>, <<110, 0, 100, 0>>,
      <<100, 100, 100, 0>>, <<100, 110, 100, 0>>, <<0, 0, 100, 110>> }

PriceRows(cid, profile, days) ==
    {[company_id |-> cid, date |-> days[i], close |-> profile[i]] :
        i \in {j \in 1..Len(days) : profile[j] # 0}}

Fact(cid, metric, label, value) ==
    [company_id |-> cid, metric |-> metric, period_label |-> label, value |-> value]

\* what a company can have as market_cap facts: nothing, an annual fact of
\* the year before BaseYear, that and a quarterly fact of the same year, or
\* that and an annual fact of BaseYear
CapProfiles ==
    {{}} \cup {{<<FY(BaseYear - 1), v>>} : v \in {-100, 0, 100, 300}}
         \cup {{<<FY(BaseYear - 1), 300>>, <<Q1FY(BaseYear - 1), 100>>}}
         \cup {{<<FY(BaseYear - 1), 100>>, <<FY(BaseYear), 300>>}}

CapRows(cid, profile) == {Fact(cid, "market_cap", r[1], r[2]) : r \in profile}

NoCall == [fn |-> "", company_ids |-> <<>>, year |-> 0, scheme |-> <<>>, ret |-> Ok(<<>>)]

\* the non-empty lists of distinct company ids, ascending
Ascending(S) == SortedDates(S)

CompanyLists == {Ascending(S) : S \in (SUBSET Companies) \ {{}}}

(***************************************************************************)
(* Specification SpecWeights: compute_weights called on any store          *)
(***************************************************************************)
InitWeights ==
    /\ \/ /\ metrics = {"ROE", "market_cap"}
          /\ \E cp \in [Companies -> CapProfiles] :
                financials = UNION {CapRows(c, cp[c]) : c \in Companies}
          /\ prices = {}
       \/ /\ metrics \in {{"ROE"}, {"ROE", "market_cap"}}
          /\ financials = {}
          /\ \E pp \in [Companies -> PriceProfiles] :
                prices = UNION {PriceRows(c, pp[c], TradingDays) : c \in Companies}
    /\ rules = <<>>
    /\ rules_id_seq = Len(rules) + 1
    /\ yearly_portfolios = {}
    /\ rule_backtest_metrics = {}
    /\ pc = "idle"
    /\ session = <<>>
    /\ call = NoCall

CallComputeWeights(company_ids, year, scheme) ==
    /\ call.fn = ""
    /\ call' = [fn |-> "compute_weights", company_ids |-> company_ids, year |-> year,
                scheme |-> scheme,
                ret |-> compute_weights(metrics, financials, prices, company_ids, year, scheme)]
    /\ UNCHANGED <<rules_id_seq, metrics, financials, prices, rules, yearly_portfolios,
                   rule_backtest_metrics, pc, session>>

NextWeights ==
    \E company_ids \in CompanyLists, year \in Years, i \in 1..Len(schemes) :
        CallComputeWeights(company_ids, year, schemes[i])

SpecWeights == InitWeights /\ [][NextWeights]_vars

(***************************************************************************)
(* Claims on compute_weights                                               *)
(***************************************************************************)
\* the call that returned was compute_weights on a non-empty list
WeightsReturned == call.fn = "compute_weights" /\ call.company_ids # <<>>

\* sum(weights.values())
WeightSum(w) == SumOver(w, DOMAIN w)

\* C1: for every non-empty list of company ids, every formation year and each
\* of the four schemes, compute_weights returns a mapping whose weights sum
\* to 1.0, whatever facts and prices the store holds for those companies.
C1_WeightsSumToOne ==
    WeightsReturned => call.ret.ok /\ FEq(WeightSum(call.ret.v), IntF(1))

\* C5: momentum scheme. A company whose trailing return clamped at 0 is 0
\* gets weight 0 whenever some company has a positive trailing return, and the
\* others get weights proportional to their trailing returns; when every
\* clamped score is 0, every company of the input list gets 1/n.
C5_MomentumWeights ==
    (WeightsReturned /\ call.scheme = momentum) =>
        LET ids      == Range(call.company_ids)
            score    == mom_dict(prices, call.company_ids, call.year, momentum_period)
            clamp(c) == IF FLess(score[c], IntF(0)) THEN IntF(0) ELSE score[c]
            total    == SumOver([c \in ids |-> clamp(c)], ids)
            w        == call.ret.v
        IN  /\ call.ret.ok
            /\ DOMAIN w = {Str(c) : c \in ids}
            /\ \A c \in ids :
                  IF \E p \in ids : FGreater(clamp(p), IntF(0))
                  THEN /\ w[Str(c)] = FDiv(clamp(c), total)
                       /\ (clamp(c) = IntF(0) => w[Str(c)] = IntF(0))
                  ELSE w[Str(c)] = Fin(1, Len(call.company_ids))

\* a momentum call in which one company has a negative trailing return and
\* weight 0, another a positive one
C5_Witness ==
    /\ WeightsReturned /\ call.scheme = momentum /\ call.ret.ok
    /\ LET score == mom_dict(prices, call.company_ids, call.year, momentum_period)
       IN  \E c, p \in Range(call.company_ids) :
              /\ FLess(score[c], IntF(0)) /\ FGreater(score[p], IntF(0))
              /\ call.ret.v[Str(c)] = IntF(0)
              /\ call.ret.v[Str(p)] = IntF(1)

(***************************************************************************)
(* portfolio_creation.py                                                   *)
(***************************************************************************)
\* eligible_company_ids[:20]
TopN == 20

Clause(name, sign, threshold) == [name |-> name, sign |-> sign, threshold |-> threshold]

RecognizedSigns == {">", "<", ">=", "<="}

\* filter_condition: financial_alias.c.value <sign> f["threshold"]
filter_condition(f, value) ==
    IF f.sign = ">" THEN value > f.threshold
    ELSE IF f.sign = "<" THEN value < f.threshold
    ELSE IF f.sign = ">=" THEN value >= f.threshold
    ELSE value <= f.threshold

\* join_condition and filter_condition of one clause, for one company: the
\* inner join keeps the company when some Financial row of it carries the
\* clause's metric (which the catalogue holds), a label ending with
\* str(year - 1) and a value the comparator accepts
JoinKeeps(M, F, f, year, cid) ==
    \E row \in F :
        /\ row.company_id = cid
        /\ row.metric \in M /\ row.metric = f.name
        /\ EndsWith(row.period_label, Str(year - 1))
        /\ filter_condition(f, row.value)

\* the screening with the clauses joined by OR instead of AND
eligible_company_ids_AnyClause(M, F, filters, year, order) ==
    LET keep(cid) ==
            \E i \in 1..Len(filters) :
                filters[i].sign \in RecognizedSigns => JoinKeeps(M, F, filters[i], year, cid)
    IN  SelectSeq(order, keep)

\* the screening with a clause of unrecognized sign keeping no company
eligible_company_ids_StrictSigns(M, F, filters, year, order) ==
    LET keep(cid) ==
            \A i \in 1..Len(filters) :
                filters[i].sign \in RecognizedSigns /\ JoinKeeps(M, F, filters[i], year, cid)
    IN  SelectSeq(order, keep)

\* the ids of q.distinct().all(), in the order the rows come back (the
\* query has no ORDER BY: `order` is the order the database picks)
eligible_company_ids(M, F, filters, year, order) ==
    LET keep(cid) ==
            \A i \in 1..Len(filters) :
                filters[i].sign \in RecognizedSigns => JoinKeeps(M, F, filters[i], year, cid)
    IN  SelectSeq(order, keep)

\* {f.company_id: f.value for f in financials}: of two rows of one company
\* the one that comes back last stays; `last` is the label the database
\* returns last
get_market_cap_for_sorting(M, F, company_ids, year, last) ==
    LET rows == FinancialsOfPriorYear(F, Range(company_ids), "market_cap", year)
        have == {r.company_id : r \in rows}
        pick(c) ==
            IF \E r \in rows : r.company_id = c /\ r.period_label = last
            THEN CHOOSE r \in rows : r.company_id = c /\ r.period_label = last
            ELSE CHOOSE r \in rows : r.company_id = c
    IN  IF company_ids = <<>> THEN <<>>
        ELSE IF "market_cap" \notin M THEN [c \in Range(company_ids) |-> 0]
        ELSE [c \in have |-> pick(c).value]

\* dict.get(cid, 0)
Get(d, cid, default) == IF cid \in DOMAIN d THEN d[cid] ELSE default

\* a descending sort that reverses the companies of equal key
RECURSIVE SortDesc_TiesReversed(_, _)
SortDesc_TiesReversed(s, key) ==
    IF s = <<>> THEN <<>>
    ELSE LET best == CHOOSE i \in 1..Len(s) :
                        /\ \A j \in 1..Len(s) : Get(key, s[j], 0) <= Get(key, s[i], 0)
                        /\ \A j \in (i + 1)..Len(s) : Get(key, s[j], 0) < Get(key, s[i], 0)
             rest == [j \in 1..(Len(s) - 1) |-> IF j < best THEN s[j] ELSE s[j + 1]]
         IN  <<s[best]>> \o SortDesc_TiesReversed(rest, key)

\* list.sort(key=..., reverse=True): stable, descending by key
RECURSIVE SortDesc(_, _)
SortDesc(s, key) ==
    IF s = <<>> THEN <<>>
    ELSE LET best == CHOOSE i \in 1..Len(s) :
                        /\ \A j \in 1..Len(s) : Get(key, s[j], 0) <= Get(key, s[i], 0)
                        /\ \A j \in 1..(i - 1) : Get(key, s[j], 0) < Get(key, s[i], 0)
             rest == [j \in 1..(Len(s) - 1) |-> IF j < best THEN s[j] ELSE s[j + 1]]
         IN  <<s[best]>> \o SortDesc(rest, key)

\* s[:n]
Head_n(s, n) == IF Len(s) <= n THEN s ELSE SubSeq(s, 1, n)

\* the list generate_portfolio returns: <<>> for a rule without filters or
\* without eligible companies
top_company_ids(M, F, filters, year, order, last) ==
    IF filters = <<>> THEN <<>>
    ELSE LET eligible    == eligible_company_ids(M, F, filters, year, order)
             market_caps == get_market_cap_for_sorting(M, F, eligible, year, last)
         IN  Head_n(SortDesc(eligible, market_caps), TopN)

\* the values of the JSON column YearlyPortfolio.weights: a float or a dict
JFloat(x) == [type |-> "float", float |-> x, dict |-> <<>>]

JDict(m) == [type |-> "dict", float |-> IntF(0), dict |-> m]

\* portfolio_weights_placeholder
placeholder(top) == [s \in {Str(c) : c \in Range(top)} |-> JFloat(IntF(0))]

\* the placeholder written also for an empty list
portfolios_after_generate_Always(yps, rule_id, year, top) ==
    LET existing == {yp \in yps : yp.rule_id = rule_id /\ yp.year = year}
    IN  IF existing # {}
        THEN {IF yp \in existing THEN [yp EXCEPT !.weights = placeholder(top)] ELSE yp :
                 yp \in yps}
        ELSE yps \cup {[id |-> Cardinality(yps) + 1, rule_id |-> rule_id, year |-> year,
                        weights |-> placeholder(top)]}

\* an update that adds the placeholder keys to the mapping of the record
portfolios_after_generate_Merge(yps, rule_id, year, top) ==
    LET existing == {yp \in yps : yp.rule_id = rule_id /\ yp.year = year}
    IN  IF top = <<>> THEN yps
        ELSE IF existing # {}
        THEN {IF yp \in existing THEN [yp EXCEPT !.weights = placeholder(top) @@ @] ELSE yp :
                 yp \in yps}
        ELSE yps \cup {[id |-> Cardinality(yps) + 1, rule_id |-> rule_id, year |-> year,
                        weights |-> placeholder(top)]}

\* the table yearly_portfolios after generate_portfolio found `top` and
\* committed: untouched for an empty list, else the record of (rule, year)
\* holds the placeholder, updated in place or inserted
portfolios_after_generate(yps, rule_id, year, top) ==
    LET existing == {yp \in yps : yp.rule_id = rule_id /\ yp.year = year}
    IN  IF top = <<>> THEN yps
        ELSE IF existing # {}
        THEN {IF yp \in existing THEN [yp EXCEPT !.weights = placeholder(top)] ELSE yp :
                 yp \in yps}
        ELSE yps \cup {[id |-> Cardinality(yps) + 1, rule_id |-> rule_id, year |-> year,
                        weights |-> placeholder(top)]}

(***************************************************************************)
(* Specification SpecGenerate: the screening and ranking of                *)
(* generate_portfolio on any store                                         *)
(***************************************************************************)
\* what a company can have as facts around BaseYear
ScreenProfiles ==
    { {},
      {<<"ROE", FY(BaseYear - 1), 20>>},
      {<<"ROE", FY(BaseYear - 1), 10>>},
      {<<"ROE", FY(BaseYear - 1), 20>>, <<"market_cap", FY(BaseYear - 1), 300>>},
      {<<"ROE", FY(BaseYear - 1), 20>>, <<"market_cap", FY(BaseYear - 1), 100>>},
      {<<"ROE", FY(BaseYear - 1), 10>>, <<"ROE", FY(BaseYear), 20>>},
      {<<"ROE", TTMQ2(BaseYear - 1), 20>>, <<"market_cap", FY(BaseYear - 1), 300>>},
      {<<"ROE", FY(BaseYear - 1), 20>>, <<"market_cap", FY(BaseYear - 1), 100>>,
       <<"market_cap", Q1FY(BaseYear - 1), 300>>} }

ScreenRows(cid, profile) == {Fact(cid, r[1], r[2], r[3]) : r \in profile}

\* rule_json["filters"] of the rules the specifications use
RuleFilters ==
    { <<>>,
      <<Clause("ROE", ">", 15)>>,
      <<Clause("ROE", "<", 15)>>,
      <<Clause("ROE", ">=", 20), Clause("market_cap", "<=", 100)>>,
      <<Clause("ROE", "==", 20)>>,
      <<Clause("ROE", ">", 15), Clause("market_cap", "!=", 100)>> }

\* the orders in which the database can return the companies
RowOrders == {s \in [1..NumCompanies -> Companies] : Range(s) = Companies}

InitGenerate ==
    /\ metrics \in {{"ROE"}, {"ROE", "market_cap"}}
    /\ \E sp \in [Companies -> ScreenProfiles] :
          financials = {f \in UNION {ScreenRows(c, sp[c]) : c \in Companies} :
                          f.metric \in metrics}
    /\ prices = {}
    /\ rules = <<>>
    /\ rules_id_seq = Len(rules) + 1
    /\ yearly_portfolios = {}
    /\ rule_backtest_metrics = {}
    /\ pc = "idle"
    /\ session = <<>>
    /\ call = NoCall

\* the screening and ranking part of generate_portfolio(rule, year)
CallTopCompanyIds(filters, year, order, last) ==
    /\ call.fn = ""
    /\ call' = [fn |-> "generate_portfolio", company_ids |-> order, year |-> year,
                scheme |-> last, filters |-> filters,
                eligible |-> eligible_company_ids(metrics, financials, filters, year, order),
                ret |-> Ok(top_company_ids(metrics, financials, filters, year, order, last))]
    /\ UNCHANGED <<rules_id_seq, metrics, financials, prices, rules, yearly_portfolios,
                   rule_backtest_metrics, pc, session>>

NextGenerate ==
    \E filters \in RuleFilters, year \in Years, order \in RowOrders,
       last \in {FY(BaseYear - 1), Q1FY(BaseYear - 1)} :
        CallTopCompanyIds(filters, year, order, last)

SpecGenerate == InitGenerate /\ [][NextGenerate]_vars

(***************************************************************************)
(* Claims on the screening of generate_portfolio                           *)
(***************************************************************************)
\* the fiscal year a period label denotes: the four digits it ends with
\* ("FY2020", "Q1FY2020"); -1 for a label that does not end with a year
LabelYear(label) ==
    LET n == Len(label)
    IN  IF n >= 4 /\ IsDigits(SubSeq(label, n - 3, n))
        THEN ParseInt(SubSeq(label, n - 3, n))
        ELSE -1

\* value <sign> threshold, for the four comparators of a filter clause
Satisfies(sign, value, threshold) ==
    \/ sign = ">"  /\ value > threshold
    \/ sign = "<"  /\ value < threshold
    \/ sign = ">=" /\ ~(value < threshold)
    \/ sign = "<=" /\ ~(value > threshold)

ScreeningReturned == call.fn = "generate_portfolio"

PointInTimeProfiles ==
    { [facts  |-> {<<"ROE", FY(BaseYear - 1), 20>>, <<"market_cap", FY(BaseYear - 1), 100>>},
       closes |-> <<100, 0, 110, 0>>],
      [facts  |-> {<<"ROE", FY(BaseYear - 1), 10>>, <<"ROE", FY(BaseYear), 20>>,
                   <<"market_cap", FY(BaseYear - 1), 100>>, <<"market_cap", FY(BaseYear), 300>>},
       closes |-> <<0, 0, 100, 110>>],
      [facts  |-> {<<"ROE", FY(BaseYear), 20>>, <<"market_cap", FY(BaseYear), 300>>},
       closes |-> <<0, 0, 0, 100>>],
      [facts  |-> {<<"ROE", FY(BaseYear - 1), 20>>, <<"ROE", TTMQ2(BaseYear), 10>>,
                   <<"market_cap", FY(BaseYear - 1), 300>>, <<"market_cap", FY(BaseYear), 100>>},
       closes |-> <<100, 110, 100, 120>>] }

InitPointInTime ==
    /\ metrics = {"ROE", "market_cap"}
    /\ \E pp \in [Companies -> PointInTimeProfiles] :
          /\ financials = UNION {ScreenRows(c, pp[c].facts) : c \in Companies}
          /\ prices = UNION {PriceRows(c, pp[c].closes, TradingDays) : c \in Companies}
    /\ rules = <<>>
    /\ rules_id_seq = Len(rules) + 1
    /\ yearly_portfolios = {}
    /\ rule_backtest_metrics = {}
    /\ pc = "idle"
    /\ session = <<>>
    /\ call = NoCall

NextPointInTime == NextGenerate \/ NextWeights

SpecPointInTime == InitPointInTime /\ [][NextPointInTime]_vars

\* the facts labelled with the year before the formation year
FactsOfYearBefore(F, year) == {f \in F : LabelYear(f.period_label) = year - 1}

\* the prices dated on or before December 31 of the year before
PricesUpToYearBefore(P, year) == {p \in P : p.date <= Dec31(year - 1)}

\* C2: point-in-time causality. For formation year Y the screening and the
\* ranking read only facts labelled Y-1, and the weighting reads only facts
\* labelled Y-1 and prices dated on or before December 31 of Y-1: the
\* eligible list, the returned list and every weight are what they are on a
\* store that holds nothing else.
C2_PointInTime ==
    /\ ScreeningReturned =>
          LET F == FactsOfYearBefore(financials, call.year)
          IN  /\ call.eligible =
                    eligible_company_ids(metrics, F, call.filters, call.year, call.company_ids)
              /\ call.ret.v =
                    top_company_ids(metrics, F, call.filters, call.year,
                                    call.company_ids, call.scheme)
    /\ WeightsReturned =>
          call.ret = compute_weights(metrics, FactsOfYearBefore(financials, call.year),
                                     PricesUpToYearBefore(prices, call.year),
                                     call.company_ids, call.year, call.scheme)

\* a weighting and a screening after which the store holds, for a company of
\* the call, a price or a fact of the formation year
C2_Witness ==
    \/ /\ WeightsReturned /\ call.scheme = momentum /\ call.ret.ok
       /\ \E p \in prices : p.company_id \in Range(call.company_ids) /\ p.date = Jan1(call.year)
       /\ \E c \in Range(call.company_ids) : FGreater(call.ret.v[Str(c)], IntF(0))
    \/ /\ ScreeningReturned /\ call.ret.v # <<>>
       /\ \E f \in financials : LabelYear(f.period_label) = call.year /\ f.metric = "ROE"

(***************************************************************************)
(* backtester.py                                                           *)
(***************************************************************************)
\* Python values of different types, as == and `in` compare them: a str is
\* never equal to an int
PyStr(s) == [type |-> "str", str |-> s, int |-> 0]

PyInt(i) == [type |-> "int", str |-> <<>>, int |-> i]

\* the Price rows of compute_portfolio_returns: company_id IN the keys (the
\* database casts the digit strings to the integer column) and the date
\* inside the year
PricesOfYear(P, keys, year) ==
    {p \in P : /\ \E k \in keys : IsDigits(k) /\ ParseInt(k) = p.company_id
               /\ Jan1(year) <= p.date /\ p.date <= Dec31(year)}

\* df.pivot(index="date", columns="company_id", values="close").sort_index().ffill():
\* row i, column c holds the last close of c on or before the i-th date, NaN
\* before the first one
Panel(df) ==
    LET dates   == SortedDates({p.date : p \in df})
        columns == {p.company_id : p \in df}
        seen(i, c) == {p \in df : p.company_id = c /\ p.date <= dates[i]}
        cell(i, c) ==
            IF seen(i, c) = {} THEN NaN
            ELSE IntF((CHOOSE p \in seen(i, c) : \A q \in seen(i, c) : q.date <= p.date).close)
    IN  [i \in 1..Len(dates) |-> [c \in columns |-> cell(i, c)]]

\* df.pct_change().dropna(): the rows, by position in the panel, that hold no
\* NaN after the day-over-day change
DailyReturns(panel) ==
    LET change(i, c) ==
            IF i = 1 THEN NaN ELSE FSub(FDiv(panel[i][c], panel[i - 1][c]), IntF(1))
        row(i) == [c \in DOMAIN panel[i] |-> change(i, c)]
        kept   == {i \in 1..Len(panel) : \A c \in DOMAIN panel[i] : ~IsNaN(change(i, c))}
    IN  [i \in kept |-> row(i)]

\* valid_ids = [cid for cid in weights.keys() if cid in daily_returns.columns]:
\* the keys are str, the column labels are the int company ids of read_sql
valid_ids(weights, columns) ==
    {cid \in DOMAIN weights : PyStr(cid) \in {PyInt(c) : c \in columns}}

\* the keys taken as the ids they spell before they are looked up
valid_ids_AsInt(weights, columns) ==
    {cid \in DOMAIN weights : IsDigits(cid) /\ PyInt(ParseInt(cid)) \in {PyInt(c) : c \in columns}}

\* daily portfolio returns by date; <<>> for the empty Series
compute_portfolio_returns(P, weights, year) ==
    LET df      == PricesOfYear(P, DOMAIN weights, year)
        dates   == SortedDates({p.date : p \in df})
        columns == {p.company_id : p \in df}
        daily_returns == DailyReturns(Panel(df))
        valid   == valid_ids(weights, columns)
        \* w = w / w.sum()
        w       == Normalize([cid \in valid |-> weights[cid]],
                             SumOver(weights, valid))
        \* daily_returns[valid_ids].dot(w)
        dot(i)  == SumOver([cid \in valid |->
                              FMul(daily_returns[i][ParseInt(cid)], w[cid])], valid)
    IN  IF df = {} THEN <<>>
        ELSE [d \in {dates[i] : i \in DOMAIN daily_returns} |->
                dot(CHOOSE i \in DOMAIN daily_returns : dates[i] = d)]

\* None
None == [k |-> "none", n |-> 0, d |-> 1]

\* risk_free_rate: float = 0.02
risk_free_rate == Fin(1, 50)

\* the values of a Series, in index order
Values(series) ==
    LET idx == SortedDates(DOMAIN series)
    IN  [i \in 1..Len(idx) |-> series[idx[i]]]

\* a list of floats, ascending
RECURSIVE SortedFloats(_)
SortedFloats(s) ==
    IF s = <<>> THEN <<>>
    ELSE LET m    == CHOOSE i \in 1..Len(s) : \A j \in 1..Len(s) : ~FLess(s[j], s[i])
             rest == [j \in 1..(Len(s) - 1) |-> IF j < m THEN s[j] ELSE s[j + 1]]
         IN  <<s[m]>> \o SortedFloats(rest)

\* Series.mean()
Mean(s) == FDiv(SumOver(s, 1..Len(s)), IntF(Len(s)))

\* Series.median()
Median(s) ==
    LET t == SortedFloats(s)
        n == Len(s)
    IN  IF n % 2 = 1 THEN t[(n + 1) \div 2]
        ELSE FDiv(FAdd(t[n \div 2], t[n \div 2 + 1]), IntF(2))

\* the metrics with the sharpe ratio divided out whatever the volatility
compute_metrics_NoGuard(returns) ==
    LET r        == Values(returns)
        mean_ret == FMul(Mean(r), IntF(252))
        vol      == FMul(Std(r), FSqrt(IntF(252)))
    IN  IF DOMAIN returns = {}
        THEN [mean_return |-> None, median_return |-> None, volatility |-> None, sharpe |-> None]
        ELSE [mean_return |-> mean_ret, median_return |-> FMul(Median(r), IntF(252)),
              volatility |-> vol, sharpe |-> FDiv(FSub(mean_ret, risk_free_rate), vol)]

compute_metrics(returns) ==
    LET r        == Values(returns)
        mean_ret == FMul(Mean(r), IntF(252))
        med_ret  == FMul(Median(r), IntF(252))
        vol      == FMul(Std(r), FSqrt(IntF(252)))
        sharpe   == IF FGreater(vol, IntF(0))
                    THEN FDiv(FSub(mean_ret, risk_free_rate), vol)
                    ELSE None
    IN  IF DOMAIN returns = {}
        THEN [mean_return |-> None, median_return |-> None, volatility |-> None, sharpe |-> None]
        ELSE [mean_return |-> mean_ret, median_return |-> med_ret, volatility |-> vol,
              sharpe |-> sharpe]

(***************************************************************************)
(* Specification SpecReturns: compute_portfolio_returns on any prices of   *)
(* the year                                                                *)
(***************************************************************************)
\* three trading days of BaseYear
YearDays == <<Jan1(BaseYear) + 10, Jan1(BaseYear) + 20, Jan1(BaseYear) + 30>>

\* what a company can have on them: its close on each, 0 for no row
YearProfiles ==
    { <<0, 0, 0>>, <<100, 110, 0>>, <<100, 110, 100>>, <<0, 100, 110>>,
      <<0, 0, 100>>, <<110, 0, 100>> }

\* the weight mappings the backtester is given: the ones compute_weights
\* returns for an equal and for a market_cap weighting of a list
WeightMappings ==
    {compute_weights({"market_cap"}, UNION {CapRows(c, {<<FY(BaseYear - 1), 100 * c>>}) : c \in Companies},
                     {}, ids, BaseYear, scheme).v :
        ids \in CompanyLists, scheme \in {equal, market_cap}}

InitReturns ==
    /\ metrics = {"ROE", "market_cap"}
    /\ financials = {}
    /\ \E pp \in [Companies -> YearProfiles] :
          prices = UNION {PriceRows(c, pp[c], YearDays) : c \in Companies}
    /\ rules = <<>>
    /\ rules_id_seq = Len(rules) + 1
    /\ yearly_portfolios = {}
    /\ rule_backtest_metrics = {}
    /\ pc = "idle"
    /\ session = <<>>
    /\ call = NoCall

CallComputePortfolioReturns(weights, year) ==
    /\ call.fn = ""
    /\ call' = [fn |-> "compute_portfolio_returns", company_ids |-> <<>>, year |-> year,
                scheme |-> <<>>, weights |-> weights,
                ret |-> Ok(compute_portfolio_returns(prices, weights, year))]
    /\ UNCHANGED <<rules_id_seq, metrics, financials, prices, rules, yearly_portfolios,
                   rule_backtest_metrics, pc, session>>

NextReturns ==
    \E weights \in WeightMappings, year \in Years :
        CallComputePortfolioReturns(weights, year)

SpecReturns == InitReturns /\ [][NextReturns]_vars

\* C4: compute_portfolio_returns, given a persisted weight mapping (keys are
\* company ids in string form) and year Y, keeps every company of the mapping
\* that has price rows in Y, drops exactly those that have none, rescales the
\* kept weights to sum to 1.0 and returns for each day the weighted sum of the
\* kept companies' daily returns.
C4_ReturnsUseCompaniesWithPrices ==
    (call.fn = "compute_portfolio_returns") =>
        LET df     == PricesOfYear(prices, DOMAIN call.weights, call.year)
            dates  == SortedDates({p.date : p \in df})
            daily  == DailyReturns(Panel(df))
            kept   == {k \in DOMAIN call.weights :
                          \E p \in df : p.company_id = ParseInt(k)}
            total  == SumOver(call.weights, kept)
            day(i) == SumOver([k \in kept |->
                                  FMul(FDiv(call.weights[k], total), daily[i][ParseInt(k)])],
                              kept)
        IN  \A i \in DOMAIN daily : call.ret.v[dates[i]] = day(i)

(***************************************************************************)
(* The scripts: portfolio generation (PortfolioGenerator.run_backtest),    *)
(* weight refresh (run_portfolio_weighting.py) and metric emission         *)
(* (PortfolioBacktester.run_backtest), run one after another               *)
(***************************************************************************)
MaxBacktests == 2
MaxPortfolios == 3

\* the permutations of a finite set, as lists
RECURSIVE Orderings(_)
Orderings(S) ==
    IF S = {} THEN {<<>>}
    ELSE UNION {{<<x>> \o t : t \in Orderings(S \ {x})} : x \in S}

\* for rule in rules: for year in range(start_year, end_year + 1)
Units(rule_ids, start_year, end_year) ==
    LET n == end_year - start_year + 1
    IN  [k \in 1..(Len(rule_ids) * n) |->
            <<rule_ids[(k - 1) \div n + 1], start_year + ((k - 1) % n)>>]

\* the scheme names a weights column holds as keys
SchemesIn(weights) == {s \in Range(schemes) : s \in DOMAIN weights}

InitPipeline ==
    /\ metrics = {"ROE", "market_cap"}
    /\ financials =
          {Fact(c, "ROE", FY(BaseYear - 1), 20) : c \in Companies}
          \cup {Fact(c, "market_cap", FY(BaseYear - 1), 100 * c) : c \in Companies}
          \cup {Fact(1, "ROE", FY(BaseYear), 20)}
    /\ prices = PriceRows(1, <<100, 120, 110, 0>>, TradingDays)
                \cup PriceRows(1, <<100, 110, 100>>, YearDays)
    /\ rules = <<<<Clause("ROE", ">", 15)>>, <<>>>>
    /\ rules_id_seq = Len(rules) + 1
    /\ yearly_portfolios = {}
    /\ rule_backtest_metrics = {}
    /\ pc = "idle"
    /\ session = <<>>
    /\ call = NoCall

\* upsert_financials(rows): the ROE of the year before BaseYear is restated
\* for every company, one row each; a row replaces the fact of its key
UpsertFinancials(value) ==
    /\ pc = "idle"
    /\ LET key(f) == <<f.company_id, f.metric, f.period_label>>
           rows   == {Fact(c, "ROE", FY(BaseYear - 1), value) : c \in Companies}
       IN  /\ ~(rows \subseteq financials)
           /\ financials' = {f \in financials : key(f) \notin {key(r) : r \in rows}}
                            \cup rows
    /\ call' = NoCall
    /\ UNCHANGED <<rules_id_seq, metrics, prices, rules, yearly_portfolios, rule_backtest_metrics,
                   pc, session>>

\* PortfolioGenerator.run_backtest(start_year, end_year): the rules are read
StartGeneration(start_year, end_year) ==
    /\ pc = "idle"
    /\ Cardinality(yearly_portfolios) + Len(rules) * (end_year - start_year + 1)
          <= MaxPortfolios
    /\ pc' = "generate"
    /\ session' = [units |-> Units([i \in 1..Len(rules) |-> i], start_year, end_year),
                   i |-> 1]
    /\ call' = NoCall
    /\ UNCHANGED <<rules_id_seq, metrics, financials, prices, rules, yearly_portfolios,
                   rule_backtest_metrics>>

\* what the loop of a script does after a unit: the next unit, or the end
AfterUnit(n) ==
    IF session.i < n
    THEN pc' = pc /\ session' = [session EXCEPT !.i = @ + 1]
    ELSE pc' = "idle" /\ session' = <<>>

\* one generate_portfolio(rule, year) of the loop, with its commit
GenerateUnit(order, last) ==
    /\ pc = "generate"
    /\ LET rule_id == session.units[session.i][1]
           year    == session.units[session.i][2]
           top     == top_company_ids(metrics, financials, rules[rule_id], year, order, last)
       IN  /\ yearly_portfolios' =
                 portfolios_after_generate(yearly_portfolios, rule_id, year, top)
           /\ call' = [fn |-> "generate_portfolio", rule_id |-> rule_id, year |-> year,
                       ret |-> Ok(top)]
    /\ AfterUnit(Len(session.units))
    /\ UNCHANGED <<rules_id_seq, metrics, financials, prices, rules, rule_backtest_metrics>>

\* a database call of generate_portfolio raises: the run stops at this unit
GenerateRaises ==
    /\ pc = "generate"
    /\ call' = [fn |-> "generate_portfolio", rule_id |-> session.units[session.i][1],
                year |-> session.units[session.i][2], ret |-> Raise]
    /\ pc' = "idle"
    /\ session' = <<>>
    /\ UNCHANGED <<rules_id_seq, metrics, financials, prices, rules, yearly_portfolios,
                   rule_backtest_metrics>>

\* run_portfolio_weighting.py: the session loads every YearlyPortfolio
StartWeighting(portfolios) ==
    /\ pc = "idle"
    /\ yearly_portfolios # {}
    /\ pc' = "weight"
    /\ session' = [portfolios |-> portfolios, i |-> 1, dirty |-> <<>>]
    /\ call' = NoCall
    /\ UNCHANGED <<rules_id_seq, metrics, financials, prices, rules, yearly_portfolios,
                   rule_backtest_metrics>>

\* company_ids = [int(cid) for cid in yp.weights.keys()], then
\* compute_all_weights: the value assigned to yp.weights, or the exception
\* the dict of dicts as the value of the JSON column; an exception propagates
as_json(all) ==
    IF ~all.ok THEN Raise ELSE Ok([s \in DOMAIN all.v |-> JDict(all.v[s])])

refreshed_weights(M, F, P, yp) ==
    IF \E k \in DOMAIN yp.weights : ~IsDigits(k) THEN Raise
    ELSE as_json(compute_all_weights(M, F, P,
                    Ascending({ParseInt(k) : k \in DOMAIN yp.weights}), yp.year))

\* one pass of the loop over the portfolios: yp.weights is assigned in the
\* session, nothing is committed
\* the body of the loop for one portfolio: skipped when its weights are
\* empty, stopped by an exception, else yp.weights = all_calculated_weights
assign_weights(yp, new) ==
    /\ call' = [fn |-> "weight_portfolio", yp |-> yp, dirty |-> session.dirty,
                ret |-> new]
    /\ IF DOMAIN yp.weights = {}
       THEN pc' = pc /\ session' = [session EXCEPT !.i = @ + 1]
       ELSE IF ~new.ok
       THEN pc' = "idle" /\ session' = <<>>
       ELSE /\ pc' = pc
            /\ session' = [session EXCEPT !.i = @ + 1,
                                          !.dirty = [id \in DOMAIN @ \cup {yp.id} |->
                                                       IF id = yp.id THEN new.v ELSE @[id]]]

WeightUnit ==
    /\ pc = "weight"
    /\ session.i <= Len(session.portfolios)
    /\ assign_weights(session.portfolios[session.i],
                      refreshed_weights(metrics, financials, prices,
                                        session.portfolios[session.i]))
    /\ UNCHANGED <<rules_id_seq, metrics, financials, prices, rules, yearly_portfolios,
                   rule_backtest_metrics>>

\* session.commit() after the loop: every assigned yp.weights is written
WeightCommit ==
    /\ pc = "weight"
    /\ session.i > Len(session.portfolios)
    /\ yearly_portfolios' =
          {IF yp.id \in DOMAIN session.dirty
           THEN [yp EXCEPT !.weights = session.dirty[yp.id]] ELSE yp : yp \in yearly_portfolios}
    /\ call' = [fn |-> "weight_commit", dirty |-> session.dirty, ret |-> Ok(<<>>)]
    /\ pc' = "idle"
    /\ session' = <<>>
    /\ UNCHANGED <<rules_id_seq, metrics, financials, prices, rules, rule_backtest_metrics>>

\* the script is interrupted or a database call raises: the with-block
\* closes the session without a commit
WeightCancelled ==
    /\ pc = "weight"
    /\ call' = [fn |-> "weight_cancelled", dirty |-> session.dirty, ret |-> Raise]
    /\ pc' = "idle"
    /\ session' = <<>>
    /\ UNCHANGED <<rules_id_seq, metrics, financials, prices, rules, yearly_portfolios,
                   rule_backtest_metrics>>

\* PortfolioBacktester.run_backtest(start_year, end_year): the session loads
\* the portfolios of the years start_year..end_year
StartBacktest(start_year, end_year, portfolios) ==
    /\ pc = "idle"
    /\ Cardinality({m.run : m \in rule_backtest_metrics}) < MaxBacktests
    /\ pc' = "backtest"
    /\ session' = [portfolios |-> portfolios, i |-> 1, added |-> <<>>,
                   start_year |-> start_year, end_year |-> end_year]
    /\ call' = NoCall
    /\ UNCHANGED <<rules_id_seq, metrics, financials, prices, rules, yearly_portfolios,
                   rule_backtest_metrics>>

\* a loop that adds no row for the portfolio
metric_rows_None(P, yp) == Ok(<<>>)

\* the row built from the metrics of one scheme
RuleBacktestMetric(rule_id, year, scheme, m) ==
    [rule_id |-> rule_id, year |-> year, scheme |-> scheme,
     mean_return |-> m.mean_return, median_return |-> m.median_return,
     volatility |-> m.volatility, sharpe |-> m.sharpe]

\* for scheme, weights in yp.weights.items(): one row per key
rows_of(P, yp, keys) ==
    [i \in 1..Len(keys) |->
        RuleBacktestMetric(yp.rule_id, yp.year, keys[i],
            compute_metrics(compute_portfolio_returns(P, yp.weights[keys[i]].dict, yp.year)))]

\* a loop that passes over the values that are no dict instead of raising
metric_rows_SkipFlat(P, yp) ==
    Ok(rows_of(P, yp, SelectSeq(schemes, LAMBDA s : s \in DOMAIN yp.weights)))

\* the RuleBacktestMetric objects the inner loop adds for one portfolio, in
\* the order of the scheme names; weights.keys() raises AttributeError on a
\* value that is a float
metric_rows(P, yp) ==
    IF \E k \in DOMAIN yp.weights : yp.weights[k].type # "dict" THEN Raise
    ELSE Ok(rows_of(P, yp, SelectSeq(schemes, LAMBDA s : s \in DOMAIN yp.weights)))

\* session.add(rbm) for the rows of one portfolio, or the exception
add_rows(yp, rows) ==
    /\ call' = [fn |-> "backtest_portfolio", yp |-> yp, added |-> session.added,
                ret |-> rows]
    /\ IF rows.ok
       THEN /\ pc' = pc
            /\ session' = [session EXCEPT !.i = @ + 1, !.added = @ \o rows.v]
       ELSE pc' = "idle" /\ session' = <<>>

\* one pass of the outer loop: the rows of one portfolio are added to the
\* session, nothing is committed
BacktestUnit ==
    /\ pc = "backtest"
    /\ session.i <= Len(session.portfolios)
    /\ add_rows(session.portfolios[session.i],
                metric_rows(prices, session.portfolios[session.i]))
    /\ UNCHANGED <<rules_id_seq, metrics, financials, prices, rules, yearly_portfolios,
                   rule_backtest_metrics>>

\* session.commit() after the loops: the added rows are inserted, each with
\* the next id of the sequence; `run` tells the runs apart (it is no column)
BacktestCommit ==
    /\ pc = "backtest"
    /\ session.i > Len(session.portfolios)
    /\ LET n   == Cardinality(rule_backtest_metrics)
           run == Cardinality({m.run : m \in rule_backtest_metrics}) + 1
       IN  rule_backtest_metrics' = rule_backtest_metrics \cup
              {[id |-> n + i, run |-> run, row |-> session.added[i]] :
                  i \in 1..Len(session.added)}
    /\ call' = [fn |-> "run_backtest", start_year |-> session.start_year,
                end_year |-> session.end_year, portfolios |-> Range(session.portfolios),
                ret |-> Ok(<<>>)]
    /\ pc' = "idle"
    /\ session' = <<>>
    /\ UNCHANGED <<rules_id_seq, metrics, financials, prices, rules, yearly_portfolios>>

\* the run is interrupted or a database call raises: the with-block closes
\* the session without a commit
BacktestCancelled ==
    /\ pc = "backtest"
    /\ call' = [fn |-> "backtest_cancelled", added |-> session.added, ret |-> Raise]
    /\ pc' = "idle"
    /\ session' = <<>>
    /\ UNCHANGED <<rules_id_seq, metrics, financials, prices, rules, yearly_portfolios,
                   rule_backtest_metrics>>

YearRanges == {r \in Years \X Years : r[1] <= r[2]}

NextPipeline ==
    \/ \E value \in {10, 20} : UpsertFinancials(value)
    \/ \E r \in YearRanges : StartGeneration(r[1], r[2])
    \/ \E order \in RowOrders, last \in {FY(BaseYear - 1)} : GenerateUnit(order, last)
    \/ GenerateRaises
    \/ \E portfolios \in Orderings(yearly_portfolios) : StartWeighting(portfolios)
    \/ WeightUnit
    \/ WeightCommit
    \/ WeightCancelled
    \/ \E r \in YearRanges :
          \E portfolios \in Orderings({yp \in yearly_portfolios :
                                          r[1] <= yp.year /\ yp.year <= r[2]}) :
             StartBacktest(r[1], r[2], portfolios)
    \/ BacktestUnit
    \/ BacktestCommit
    \/ BacktestCancelled

SpecPipeline == InitPipeline /\ [][NextPipeline]_vars


(***************************************************************************)
(* Claims on the orchestrator passes, checked under SpecPipeline           *)
(***************************************************************************)
\* the committed record of (rule, year), if any
RecordsOf(rule_id, year) ==
    {yp \in yearly_portfolios : yp.rule_id = rule_id /\ yp.year = year}

\* the step is a generate_portfolio that returned the empty list
ReturnsEmptyList ==
    /\ pc = "generate"
    /\ call'.fn = "generate_portfolio"
    /\ call'.ret.ok
    /\ call'.ret.v = <<>>

\* the loop of the generation run goes on to its next unit, or ends after
\* the last one
LoopContinues ==
    IF session.i < Len(session.units)
    THEN pc' = "generate" /\ session' = [session EXCEPT !.i = @ + 1]
    ELSE pc' = "idle"

\* C6: whenever generate_portfolio(rule, Y) returns an empty list, the set
\* of YearlyPortfolio records is unchanged (none created for (rule, Y), an
\* existing one keeps its weights) and the generation loop continues with
\* the next unit
C6_EmptyListLeavesRecords ==
    [][ReturnsEmptyList => (yearly_portfolios' = yearly_portfolios /\ LoopContinues)]_vars

\* generate_portfolio has just returned the empty list for a (rule, year)
\* whose record holds computed weights, and the loop goes on
C6_Witness ==
    /\ pc = "generate"
    /\ call.fn = "generate_portfolio"
    /\ call.ret.ok
    /\ call.ret.v = <<>>
    /\ \E yp \in RecordsOf(call.rule_id, call.year) : SchemesIn(yp.weights) = Range(schemes)

\* C7: in no committed state, after any sequence of generation,
\* weight-refresh and backtest passes, failed or cancelled ones included,
\* does a YearlyPortfolio hold some but not all of the four schemes
C7_NoPartialSchemeMapping ==
    \A yp \in yearly_portfolios :
        SchemesIn(yp.weights) = {} \/ SchemesIn(yp.weights) = Range(schemes)

\* a weight-refresh pass that had assigned the mapping of a portfolio was
\* cancelled, or stopped by an exception, and another portfolio holds
\* committed weights
C7_Witness ==
    /\ call.fn \in {"weight_cancelled", "weight_portfolio"}
    /\ ~call.ret.ok
    /\ DOMAIN call.dirty # {}
    /\ \E yp \in yearly_portfolios : SchemesIn(yp.weights) = Range(schemes)
    /\ \E yp \in yearly_portfolios : SchemesIn(yp.weights) = {} /\ yp.id \in DOMAIN call.dirty

\* C8: the weight-refresh pass run again on a YearlyPortfolio whose weights
\* were already computed completes without error and leaves the four scheme
\* mappings over the same company ids as before
C8_RefreshIsRepeatable ==
    (call.fn = "weight_portfolio" /\ SchemesIn(call.yp.weights) = Range(schemes))
    => /\ call.ret.ok
       /\ \A s \in Range(schemes) :
             /\ s \in DOMAIN call.ret.v
             /\ DOMAIN call.ret.v[s].dict = DOMAIN call.yp.weights[s].dict


\* the rows of the table, or of a set of rows, of one (rule, year, scheme)
RowsOf(rows, rule_id, year, scheme) ==
    {m \in rows : m.row.rule_id = rule_id /\ m.row.year = year /\ m.row.scheme = scheme}

\* the step is the end of a successful PortfolioBacktester.run_backtest
BacktestSucceeds == pc = "backtest" /\ call'.fn = "run_backtest"

\* the rows the step inserts: one per pair (portfolio of the years
\* start..end, scheme of its mapping), none for anything else
InsertsOnePerPair ==
    LET inserted == rule_backtest_metrics' \ rule_backtest_metrics
        covered  == {yp \in yearly_portfolios :
                        call'.start_year <= yp.year /\ yp.year <= call'.end_year}
    IN  /\ \A yp \in covered : \A s \in DOMAIN yp.weights :
              Cardinality(RowsOf(inserted, yp.rule_id, yp.year, s)) = 1
        /\ \A m \in inserted : \E yp \in covered :
              /\ m.row.rule_id = yp.rule_id
              /\ m.row.year = yp.year
              /\ m.row.scheme \in DOMAIN yp.weights

\* C9: one successful PortfolioBacktester.run_backtest(start, end) inserts
\* exactly one RuleBacktestMetric row per pair (YearlyPortfolio with
\* start <= year <= end, scheme of its weight mapping) and never updates or
\* deletes a row: every run leaves one row of its own per (rule, year,
\* scheme) it covered, so k runs leave k rows
C9_OneRowPerRunAndScheme ==
    /\ [][rule_backtest_metrics \subseteq rule_backtest_metrics']_vars
    /\ [][BacktestSucceeds => InsertsOnePerPair]_vars
    /\ [](\A m \in rule_backtest_metrics :
             Cardinality(RowsOf(rule_backtest_metrics, m.row.rule_id, m.row.year, m.row.scheme))
                = Cardinality({n.run : n \in RowsOf(rule_backtest_metrics, m.row.rule_id,
                                                    m.row.year, m.row.scheme)}))

\* a second successful run over the same portfolio has just committed: each
\* scheme of the portfolio has two rows
C9_Witness ==
    /\ call.fn = "run_backtest"
    /\ \E yp \in call.portfolios :
          /\ yp \in yearly_portfolios
          /\ SchemesIn(yp.weights) = Range(schemes)
          /\ \A s \in Range(schemes) :
                Cardinality(RowsOf(rule_backtest_metrics, yp.rule_id, yp.year, s)) = MaxBacktests

\* C10: in each orchestrator pass the writes of a unit are committed when
\* the unit finishes: when a later unit of a weight-refresh raises, the
\* mappings assigned by the earlier units of the run are in the table, and
\* when a later unit of a metric emission raises, the rows added by the
\* earlier units of the run are in the table
C10_UnitsCommitIndependently ==
    /\ (call.fn = "weight_portfolio" /\ ~call.ret.ok)
       => \A id \in DOMAIN call.dirty :
             \E yp \in yearly_portfolios : yp.id = id /\ yp.weights = call.dirty[id]
    /\ (call.fn = "backtest_portfolio" /\ ~call.ret.ok)
       => \A i \in 1..Len(call.added) :
             Cardinality(RowsOf(rule_backtest_metrics, call.added[i].rule_id,
                                call.added[i].year, call.added[i].scheme)) >= 1


(***************************************************************************)
(* Specification SpecRace: two workers run generate_portfolio at the same  *)
(* time, each in a session of its own (READ COMMITTED); a worker's steps   *)
(* are the screening query, the read of the existing record, the change    *)
(* of the session, and the commit                                          *)
(***************************************************************************)
Workers == {"w1", "w2"}

\* the calls one worker makes
MaxRuns == 2

\* the state of a worker between two calls
Idle(rule_id, year, runs) ==
    [rule_id |-> rule_id, year |-> year, top |-> <<>>, existing |-> 0, runs |-> runs]

InitRace ==
    /\ metrics = {"ROE", "market_cap"}
    /\ financials =
          {Fact(c, "ROE", FY(BaseYear - 1), 20) : c \in Companies}
          \cup {Fact(c, "market_cap", FY(BaseYear - 1), 100 * c) : c \in Companies}
          \cup {Fact(1, "ROE", FY(BaseYear), 20)}
    /\ prices = {}
    /\ rules = <<<<Clause("ROE", ">", 15)>>>>
    /\ rules_id_seq = Len(rules) + 1
    /\ yearly_portfolios \in
          {{}, {[id |-> 1, rule_id |-> 1, year |-> BaseYear, weights |-> placeholder(<<1>>)]}}
    /\ rule_backtest_metrics = {}
    /\ pc = [w \in Workers |-> "idle"]
    /\ session \in [Workers -> {Idle(1, y, 0) : y \in Years}]
    /\ call = NoCall

\* generate_portfolio up to the sort: an empty list is returned at once
BeginGenerate(w, order) ==
    /\ pc[w] = "idle"
    /\ session[w].runs < MaxRuns
    /\ LET top == top_company_ids(metrics, financials, rules[session[w].rule_id],
                                  session[w].year, order, FY(BaseYear - 1))
       IN  IF top = <<>>
           THEN /\ pc' = pc
                /\ session' = [session EXCEPT ![w].runs = @ + 1]
                /\ call' = [fn |-> "generate_portfolio", worker |-> w,
                            rule_id |-> session[w].rule_id, year |-> session[w].year,
                            ret |-> Ok(top)]
           ELSE /\ pc' = [pc EXCEPT ![w] = "read"]
                /\ session' = [session EXCEPT ![w].top = top]
                /\ call' = NoCall
    /\ UNCHANGED <<rules_id_seq, metrics, financials, prices, rules, yearly_portfolios,
                   rule_backtest_metrics>>

\* filter_by(rule_id, year).one_or_none() on the committed rows: the id of
\* the record, 0 for None, MultipleResultsFound when there are several
ReadExisting(w) ==
    /\ pc[w] = "read"
    /\ LET found == RecordsOf(session[w].rule_id, session[w].year)
       IN  IF Cardinality(found) > 1
           THEN /\ pc' = [pc EXCEPT ![w] = "idle"]
                /\ session' = [session EXCEPT
                                  ![w] = Idle(@.rule_id, @.year, @.runs + 1)]
                /\ call' = [fn |-> "generate_portfolio", worker |-> w,
                            rule_id |-> session[w].rule_id, year |-> session[w].year,
                            ret |-> Raise]
           ELSE /\ pc' = [pc EXCEPT ![w] = "change"]
                /\ session' = [session EXCEPT ![w].existing =
                                  IF found = {} THEN 0 ELSE (CHOOSE yp \in found : TRUE).id]
                /\ call' = NoCall
    /\ UNCHANGED <<rules_id_seq, metrics, financials, prices, rules, yearly_portfolios,
                   rule_backtest_metrics>>

\* existing_portfolio.weights = placeholder, or session.add(new_portfolio):
\* the session is changed, the table is not
ChangeSession(w) ==
    /\ pc[w] = "change"
    /\ pc' = [pc EXCEPT ![w] = "commit"]
    /\ call' = NoCall
    /\ UNCHANGED <<rules_id_seq, metrics, financials, prices, rules, yearly_portfolios,
                   rule_backtest_metrics, session>>

\* the table after the flush of one session: the UPDATE of the row read, or
\* the INSERT of a row with the next id of the sequence
portfolios_after_commit(yps, existing, rule_id, year, top) ==
    IF existing # 0
    THEN {IF yp.id = existing THEN [yp EXCEPT !.weights = placeholder(top)] ELSE yp :
             yp \in yps}
    ELSE yps \cup {[id |-> Cardinality(yps) + 1, rule_id |-> rule_id, year |-> year,
                    weights |-> placeholder(top)]}

\* session.commit(); return top_company_ids
CommitGenerate(w) ==
    /\ pc[w] = "commit"
    /\ yearly_portfolios' =
          portfolios_after_commit(yearly_portfolios, session[w].existing,
                                  session[w].rule_id, session[w].year, session[w].top)
    /\ call' = [fn |-> "generate_portfolio", worker |-> w,
                rule_id |-> session[w].rule_id, year |-> session[w].year,
                ret |-> Ok(session[w].top)]
    /\ pc' = [pc EXCEPT ![w] = "idle"]
    /\ session' = [session EXCEPT ![w] = Idle(@.rule_id, @.year, @.runs + 1)]
    /\ UNCHANGED <<rules_id_seq, metrics, financials, prices, rules, rule_backtest_metrics>>

NextRace ==
    \E w \in Workers :
        \/ \E order \in RowOrders : BeginGenerate(w, order)
        \/ ReadExisting(w)
        \/ ChangeSession(w)
        \/ CommitGenerate(w)

SpecRace == InitRace /\ [][NextRace]_vars

\* C11: two workers running generate_portfolio concurrently for the same
\* (rule, year), in any interleaving of their steps, never leave more than
\* one YearlyPortfolio record for the pair, and neither worker fails
\* because of the other
C11_NoDuplicateUnderRace ==
    /\ \A yp \in yearly_portfolios : Cardinality(RecordsOf(yp.rule_id, yp.year)) <= 1
    /\ call.fn = "generate_portfolio" => call.ret.ok


\* C12: after any sequence of sequential generate_portfolio calls there is
\* at most one YearlyPortfolio record per (rule_id, year), and after a call
\* that finds a non-empty top list the weights of the record are exactly
\* the placeholder of that call: the string ids of its top companies as
\* keys, each with 0.0, nothing of the earlier content
C12_UpsertReplacesWholesale ==
    /\ \A yp \in yearly_portfolios : Cardinality(RecordsOf(yp.rule_id, yp.year)) <= 1
    /\ (call.fn = "generate_portfolio" /\ call.ret.ok /\ call.ret.v # <<>>)
       => /\ RecordsOf(call.rule_id, call.year) # {}
          /\ \A yp \in RecordsOf(call.rule_id, call.year) :
                /\ DOMAIN yp.weights = {Str(c) : c \in Range(call.ret.v)}
                /\ \A k \in DOMAIN yp.weights : yp.weights[k] = JFloat(IntF(0))

\* generate_portfolio has just found companies for a (rule, year) whose
\* record held computed scheme weights, as the metric rows of the pair tell
C12_Witness ==
    /\ call.fn = "generate_portfolio"
    /\ call.ret.ok
    /\ call.ret.v # <<>>
    /\ \E m \in rule_backtest_metrics :
          m.row.rule_id = call.rule_id /\ m.row.year = call.year


(***************************************************************************)
(* Specification SpecRuleCommit: a new Rule is added to a session and      *)
(* committed by RuleEvolutionEngine._safe_commit, on a rules table whose   *)
(* id sequence may be behind the ids in the table                          *)
(***************************************************************************)
\* the rules the table holds at most
MaxRules == 3

\* rule_json["filters"] of the rules stored or added
RuleJsons ==
    { <<Clause("ROE", ">", 15)>>,
      <<Clause("ROE", "<", 10), Clause("market_cap", ">=", 100)>> }

InitRuleCommit ==
    /\ metrics = {"ROE", "market_cap"}
    /\ financials = {}
    /\ prices = {}
    /\ rules \in UNION {[1..n -> RuleJsons] : n \in 1..(MaxRules - 1)}
    /\ rules_id_seq \in 1..(Len(rules) + 1)
    /\ yearly_portfolios = {}
    /\ rule_backtest_metrics = {}
    /\ pc = "idle"
    /\ session = <<>>
    /\ call = NoCall

\* session.add(new_rule): the rule is pending in the session
AddRule(rule_json) ==
    /\ pc = "idle"
    /\ Len(rules) < MaxRules
    /\ pc' = "commit"
    /\ session' = [pending |-> <<rule_json>>, new_rule |-> rule_json,
                   before |-> Len(rules), commits |-> 0]
    /\ call' = NoCall
    /\ UNCHANGED <<metrics, financials, prices, rules, rules_id_seq, yearly_portfolios,
                   rule_backtest_metrics>>

\* the flush of a commit: each pending rule is inserted with the next value
\* of the sequence, which is consumed also when the INSERT fails with a
\* duplicate key
flush(table, seq, pending) ==
    IF pending = <<>> THEN [ok |-> TRUE, rules |-> table, seq |-> seq]
    ELSE IF seq <= Len(table) THEN [ok |-> FALSE, rules |-> table, seq |-> seq + 1]
    ELSE [ok |-> TRUE, rules |-> Append(table, pending[1]), seq |-> seq + 1]

\* what _safe_commit tells its caller
SafeCommitReturns(error, ret) ==
    [fn |-> "_safe_commit", new_rule |-> session.new_rule, before |-> session.before,
     commits |-> session.commits + 1, error |-> error, ret |-> ret]

\* try: session.commit()
Commit ==
    /\ pc = "commit"
    /\ LET f == flush(rules, rules_id_seq, session.pending)
       IN  /\ rules' = f.rules
           /\ rules_id_seq' = f.seq
           /\ IF f.ok
              THEN /\ pc' = "idle"
                   /\ session' = <<>>
                   /\ call' = SafeCommitReturns("", Ok(<<>>))
              ELSE /\ pc' = "rollback"
                   /\ session' = [session EXCEPT !.commits = @ + 1]
                   /\ call' = NoCall
    /\ UNCHANGED <<metrics, financials, prices, yearly_portfolios, rule_backtest_metrics>>

\* the commit raises an IntegrityError that is no duplicate key: raise
CommitRaisesOther ==
    /\ pc = "commit"
    /\ pc' = "idle"
    /\ session' = <<>>
    /\ call' = SafeCommitReturns("other", Raise)
    /\ UNCHANGED <<metrics, financials, prices, rules, rules_id_seq, yearly_portfolios,
                   rule_backtest_metrics>>

\* the objects pending in a session after session.rollback(): they are
\* expunged from the session
pending_after_rollback(pending) == <<>>

\* session.rollback()
Rollback ==
    /\ pc = "rollback"
    /\ pc' = "setval"
    /\ session' = [session EXCEPT !.pending = pending_after_rollback(@)]
    /\ call' = NoCall
    /\ UNCHANGED <<metrics, financials, prices, rules, rules_id_seq, yearly_portfolios,
                   rule_backtest_metrics>>

\* _fix_rule_id_sequence: setval(seq, MAX(id) + 1, false), and its commit
FixRuleIdSequence ==
    /\ pc = "setval"
    /\ rules_id_seq' = Len(rules) + 1
    /\ pc' = "retry"
    /\ call' = [fn |-> "_fix_rule_id_sequence", ret |-> Ok(<<>>)]
    /\ UNCHANGED <<metrics, financials, prices, rules, yearly_portfolios,
                   rule_backtest_metrics, session>>

\* the session.commit() of the except branch: an error propagates
RetryCommit ==
    /\ pc = "retry"
    /\ LET f == flush(rules, rules_id_seq, session.pending)
       IN  /\ rules' = f.rules
           /\ rules_id_seq' = f.seq
           /\ call' = SafeCommitReturns("duplicate", IF f.ok THEN Ok(<<>>) ELSE Raise)
    /\ pc' = "idle"
    /\ session' = <<>>
    /\ UNCHANGED <<metrics, financials, prices, yearly_portfolios, rule_backtest_metrics>>

\* the retried commit raises: the error propagates
RetryRaises ==
    /\ pc = "retry"
    /\ call' = SafeCommitReturns("duplicate", Raise)
    /\ pc' = "idle"
    /\ session' = <<>>
    /\ UNCHANGED <<metrics, financials, prices, rules, rules_id_seq, yearly_portfolios,
                   rule_backtest_metrics>>

NextRuleCommit ==
    \/ \E rule_json \in RuleJsons : AddRule(rule_json)
    \/ Commit
    \/ CommitRaisesOther
    \/ Rollback
    \/ FixRuleIdSequence
    \/ RetryCommit
    \/ RetryRaises

SpecRuleCommit == InitRuleCommit /\ [][NextRuleCommit]_vars

\* C13: when the commit of a newly added rule fails with a duplicate key,
\* _safe_commit rolls back, resynchronizes the sequence and retries the
\* commit exactly once, after which the new rule is stored; an integrity
\* error of another kind, and a failure of the retry, propagate
C13_RetryStoresTheRule ==
    /\ (call.fn = "_safe_commit" /\ call.error = "duplicate" /\ call.ret.ok)
       => /\ call.commits = 2
          /\ rules_id_seq = Len(rules) + 1
          /\ Len(rules) = call.before + 1
          /\ rules[Len(rules)] = call.new_rule
    /\ (call.fn = "_safe_commit" /\ call.error = "other") => ~call.ret.ok
    /\ call.fn = "_safe_commit" => call.commits <= 2


(***************************************************************************)
(* Specification SpecRanking: the ranking of generate_portfolio on stores  *)
(* with more eligible companies than the list keeps                        *)
(***************************************************************************)
\* enough companies for the cut at TopN to drop some
RankedCompanies == 1..(TopN + 2)

\* how many of the companies pass the screen: the first n
EligibleCounts == {0, 1, TopN - 1, TopN, TopN + 1, TopN + 2}

\* the market-cap facts of the year before BaseYear, company by company:
\* <<>> where the company has none
CapPatterns ==
    { [c \in RankedCompanies |-> <<>>],
      [c \in RankedCompanies |-> <<100>>],
      [c \in RankedCompanies |-> <<100 * (c % 3)>>],
      [c \in RankedCompanies |-> IF c % 2 = 0 THEN <<100 * c>> ELSE <<>>],
      [c \in RankedCompanies |-> IF c % 2 = 1 THEN <<-100>> ELSE <<>>],
      [c \in RankedCompanies |-> <<100 * ((c * 7) % 5)>>] }

\* orders in which the database can return the companies: ascending,
\* descending, and ascending from the eighth on
RankedOrders ==
    { [i \in RankedCompanies |-> i],
      [i \in RankedCompanies |-> TopN + 3 - i],
      [i \in RankedCompanies |-> ((i + 6) % (TopN + 2)) + 1] }

InitRanking ==
    /\ metrics \in {{"ROE"}, {"ROE", "market_cap"}}
    /\ \E n \in EligibleCounts, caps \in CapPatterns :
          financials =
             {f \in {Fact(c, "ROE", FY(BaseYear - 1), 20) : c \in 1..n}
                    \cup {Fact(c, "market_cap", FY(BaseYear - 1), caps[c][1]) :
                             c \in {d \in RankedCompanies : caps[d] # <<>>}} :
                 f.metric \in metrics}
    /\ prices = {}
    /\ rules = <<>>
    /\ rules_id_seq = Len(rules) + 1
    /\ yearly_portfolios = {}
    /\ rule_backtest_metrics = {}
    /\ pc = "idle"
    /\ session = <<>>
    /\ call = NoCall

NextRanking ==
    \E order \in RankedOrders :
        CallTopCompanyIds(<<Clause("ROE", ">", 15)>>, BaseYear, order, FY(BaseYear - 1))

SpecRanking == InitRanking /\ [][NextRanking]_vars

\* the sort key of a company: the value of a market-cap fact of the company
\* labelled with the year before, 0 without the metric or without a fact
HasKey(c, year, k) ==
    IF "market_cap" \in metrics
       /\ \E f \in financials :
             f.company_id = c /\ f.metric = "market_cap" /\ LabelYear(f.period_label) = year - 1
    THEN \E f \in financials :
            /\ f.company_id = c /\ f.metric = "market_cap"
            /\ LabelYear(f.period_label) = year - 1
            /\ f.value = k
    ELSE k = 0

\* company a comes before company b in the descending stable order of the
\* list s under the keys
ComesBefore(s, year, a, b) ==
    \E ka \in {0} \cup {f.value : f \in financials}, kb \in {0} \cup {f.value : f \in financials} :
        /\ HasKey(a, year, ka)
        /\ HasKey(b, year, kb)
        /\ \/ ka > kb
           \/ /\ ka = kb
              /\ \E i, j \in 1..Len(s) : i < j /\ s[i] = a /\ s[j] = b

\* C14: the list returned by generate_portfolio is the first
\* min(20, |eligible|) elements of the eligible list sorted in descending
\* order of each company's year Y-1 market-cap fact, with key 0 for a
\* company without such a fact or when no market_cap metric exists, and
\* with companies of equal keys in their order of the eligible list
C14_TopTwentyStableDescending ==
    (ScreeningReturned /\ call.filters # <<>>)
    => LET top == call.ret.v
           el  == call.eligible
       IN  /\ Len(top) = IF Len(el) < 20 THEN Len(el) ELSE 20
           /\ Range(top) \subseteq Range(el)
           /\ \A i, j \in 1..Len(top) : i < j => ComesBefore(el, call.year, top[i], top[j])
           /\ \A c \in Range(el) \ Range(top) :
                 \A i \in 1..Len(top) : ComesBefore(el, call.year, top[i], c)

\* more than twenty companies are eligible, some of equal key are kept in
\* their order, one without a fact is kept, and one with a fact is cut
C14_Witness ==
    /\ ScreeningReturned
    /\ Len(call.eligible) > 20
    /\ Len(call.ret.v) = 20
    /\ \E i \in 1..19 : call.ret.v[i] > call.ret.v[i + 1]
    /\ \E i \in 1..19 : call.ret.v[i] < call.ret.v[i + 1]
    /\ \E c \in Range(call.ret.v) :
          ~\E f \in financials : f.company_id = c /\ f.metric = "market_cap"
    /\ \E c \in Range(call.eligible) \ Range(call.ret.v) :
          \E f \in financials : f.company_id = c /\ f.metric = "market_cap"


\* company c has a fact of the clause's metric labelled with the year
\* before `year` whose value the clause accepts
PassesClause(c, f, year) ==
    \E row \in financials :
        /\ row.company_id = c
        /\ row.metric = f.name
        /\ LabelYear(row.period_label) = year - 1
        /\ Satisfies(f.sign, row.value, f.threshold)

CapFacts(c, year) ==
    {f \in financials : /\ f.company_id = c
                        /\ f.metric = "market_cap"
                        /\ "market_cap" \in metrics
                        /\ LabelYear(f.period_label) = year - 1}

\* the market cap a company counts with: its fact, 1.0 without a fact
CapOrOne(c, year) ==
    IF CapFacts(c, year) = {} THEN IntF(1)
    ELSE IntF((CHOOSE f \in CapFacts(c, year) : TRUE).value)

\* C16: market-cap scheme. For any non-empty company list each company's
\* weight is its year Y-1 market-cap fact divided by the sum over the list,
\* a company with no such fact counting as 1.0
C16_MarketCapWeights ==
    (WeightsReturned /\ call.scheme = market_cap) =>
        LET ids   == Range(call.company_ids)
            total == SumOver([c \in ids |-> CapOrOne(c, call.year)], ids)
        IN  /\ call.ret.ok
            /\ \A c \in ids :
                  /\ Str(c) \in DOMAIN call.ret.v
                  /\ call.ret.v[Str(c)] = FDiv(CapOrOne(c, call.year), total)


\* C17: every weight of a mapping returned by compute_weights is
\* non-negative, for each of the four schemes and any facts and prices
C17_WeightsNonNegative ==
    (WeightsReturned /\ call.ret.ok)
    => \A k \in DOMAIN call.ret.v : ~FLess(call.ret.v[k], IntF(0))


(***************************************************************************)
(* Specification SpecMetrics: compute_metrics on any short series of daily *)
(* returns                                                                 *)
(***************************************************************************)
\* the entries of a return series at most
MaxLen == 3

\* daily returns: a halving, no change, and rises by a half, one and two
ReturnValues == {Fin(-1, 2), IntF(0), Fin(1, 2), IntF(1), IntF(2)}

\* the Series of daily returns, indexed by the days after Jan 1 of BaseYear
ReturnSeries ==
    UNION {[{Jan1(BaseYear) + i : i \in 1..n} -> ReturnValues] : n \in 0..MaxLen}

InitMetrics ==
    /\ metrics = {"ROE", "market_cap"}
    /\ financials = {}
    /\ prices = {}
    /\ rules = <<>>
    /\ rules_id_seq = Len(rules) + 1
    /\ yearly_portfolios = {}
    /\ rule_backtest_metrics = {}
    /\ pc = "idle"
    /\ session = <<>>
    /\ call = NoCall

CallComputeMetrics(returns) ==
    /\ call.fn = ""
    /\ call' = [fn |-> "compute_metrics", returns |-> returns,
                ret |-> Ok(compute_metrics(returns))]
    /\ UNCHANGED <<metrics, financials, prices, rules, rules_id_seq, yearly_portfolios,
                   rule_backtest_metrics, pc, session>>

NextMetrics == \E returns \in ReturnSeries : CallComputeMetrics(returns)

SpecMetrics == InitMetrics /\ [][NextMetrics]_vars

\* a volatility that is a number greater than 0
IsPositive(x) == x.k = "inf" \/ (x.k = "fin" /\ x.n > 0)

\* C18: compute_metrics returns an undefined sharpe exactly when the
\* annualized volatility of the series is not greater than 0 (an empty
\* series and a volatility that cannot be computed included), and otherwise
\* sharpe = (mean_return - risk_free_rate) / volatility; it never fails
C18_SharpeDefinedIffVolPositive ==
    call.fn = "compute_metrics"
    => LET m == call.ret.v
       IN  /\ call.ret.ok
           /\ (m.sharpe = None) <=> ~IsPositive(m.volatility)
           /\ IsPositive(m.volatility)
              => m.sharpe = FDiv(FSub(m.mean_return, Fin(2, 100)), m.volatility)
           /\ DOMAIN call.returns = {} => m.volatility = None
           /\ Cardinality(DOMAIN call.returns) = 1 => IsNaN(m.volatility)

\* a series of returns that differ and have a defined sharpe below 0
C18_Witness ==
    /\ call.fn = "compute_metrics"
    /\ Cardinality(DOMAIN call.returns) >= 2
    /\ IsPositive(call.ret.v.volatility)
    /\ call.ret.v.sharpe.k = "fin"
    /\ call.ret.v.sharpe.n < 0


\* the dates of `year` on which a company of the portfolio has a Price row
PricedDates(weights, year) ==
    {p.date : p \in {q \in prices : /\ Str(q.company_id) \in DOMAIN weights
                                    /\ Jan1(year) <= q.date
                                    /\ q.date <= Dec31(year)}}

\* C19: the daily return series of compute_portfolio_returns for year Y has
\* one entry for every date on which any company of the portfolio has a
\* price row in Y, except the earliest such date, also when the companies'
\* first observed dates differ
C19_OnlyFirstRowDropped ==
    (call.fn = "compute_portfolio_returns") =>
        LET days == PricedDates(call.weights, call.year)
        IN  DOMAIN call.ret.v = {d \in days : \E e \in days : e < d}


\* [str(cid) for cid in company_ids] as a set
StrIds(company_ids) == {Str(c) : c \in Range(company_ids)}

\* C20: for every scheme and every non-empty list of distinct company ids,
\* compute_weights returns a mapping whose key set is exactly the string forms
\* of the input ids, the momentum, market_cap and inverse_vol fallbacks
\* included
C20_KeysAreInputIds ==
    WeightsReturned =>
        /\ call.ret.ok
        /\ DOMAIN call.ret.v = StrIds(call.company_ids)


\* the record holds the flat placeholder of generate_portfolio: a key whose
\* value is a float, not the mapping of a scheme
HoldsPlaceholder(yp) == \E k \in DOMAIN yp.weights : yp.weights[k].type = "float"

\* the portfolios loaded by the running backtest pass include a placeholder
PassMeetsPlaceholder ==
    /\ pc = "backtest"
    /\ \E i \in 1..Len(session.portfolios) : HoldsPlaceholder(session.portfolios[i])

\* C21: after any sequence of generation, weight-refresh and backtest passes
\* every committed RuleBacktestMetric row has one of the four computed scheme
\* names as its scheme, and no step of a backtest pass that loaded a
\* YearlyPortfolio still holding the flat placeholder inserts a row, for that
\* portfolio or any other
C21_PlaceholderCommitsNoRow ==
    /\ [](\A m \in rule_backtest_metrics : m.row.scheme \in Range(schemes))
    /\ [][PassMeetsPlaceholder => rule_backtest_metrics' = rule_backtest_metrics]_vars

\* a backtest pass added the rows of a weighted portfolio, then raised on a
\* portfolio holding the placeholder: the added rows are not in the table
C21_Witness ==
    /\ call.fn = "backtest_portfolio"
    /\ ~call.ret.ok
    /\ HoldsPlaceholder(call.yp)
    /\ call.added # <<>>
    /\ pc = "idle"
    /\ \A i \in 1..Len(call.added) :
          RowsOf(rule_backtest_metrics, call.added[i].rule_id, call.added[i].year,
                 call.added[i].scheme) = {}



(***************************************************************************)
(* Specification SpecTweak: RuleEvolutionEngine.tweak_rule on a rules      *)
(* table; the Rule objects the session loaded and the lists their          *)
(* rule_json dicts refer to are kept apart from the rows of the table      *)
(***************************************************************************)
\* def tweak_rule(self, max_tweaks: int = 2)
max_tweaks == 2

\* one entry of rule_json["filters"]
filter_json(sign, threshold, period) ==
    [name |-> "ROE", sign |-> sign, threshold |-> threshold, period |-> period]

\* rule_json["filters"] of the stored rules: none, one and two entries
TweakRuleJsons ==
    { <<>>,
      <<filter_json(">", IntF(15), "3Y")>>,
      <<filter_json("<", IntF(10), "1Y"), filter_json(">=", Fin(25, 2), "5Y")>> }

\* random.choice(["threshold", "sign", "period"])
TweakTypes == {"threshold", "sign", "period"}

\* the draws of a tweak: random.uniform(0.8, 1.2), a sign, a period
TweakDraws(tweak_type) ==
    IF tweak_type = "threshold" THEN {Fin(4, 5), Fin(8333, 10000), Fin(6, 5)}
    ELSE IF tweak_type = "sign" THEN {">", "<", ">=", "<="}
    ELSE {"1Y", "3Y", "5Y", "10Y"}

\* round(x, 2) of a finite x that is no tie
Round2(x) ==
    LET a == Abs(x.n) * 100
        q == (2 * a + x.d) \div (2 * x.d)
    IN  Fin(Sign(x.n) * q, 100)

\* the body of the tweak loop on the entry f
tweaked_filter(f, tweak_type, draw) ==
    IF tweak_type = "threshold"
    THEN [f EXCEPT !.threshold = Round2(FMul(f.threshold, draw))]
    ELSE IF tweak_type = "sign" THEN [f EXCEPT !.sign = draw]
    ELSE [f EXCEPT !.period = draw]

\* original_rule.rule_json.copy(): a new dict whose "filters" key refers to
\* the list object of the original dict
dict_copy(objects, heap, original) == objects[original]

\* the rows after the UPDATEs of a flush when in-place changes of a JSON
\* value mark the object as changed
rows_after_updates_Tracked(table, objects, heap) ==
    [i \in 1..Len(table) |-> IF i \in DOMAIN objects THEN heap[objects[i]] ELSE table[i]]

\* the rows after the UPDATEs of a flush: the column type is plain JSON, an
\* in-place change of the loaded value raises no attribute event, and no
\* loaded Rule is written back
rows_after_updates(table, objects, heap) == table

InitTweak ==
    /\ metrics = {"ROE", "market_cap"}
    /\ financials = {}
    /\ prices = {}
    /\ rules \in UNION {[1..n -> TweakRuleJsons] : n \in 0..(MaxRules - 1)}
    /\ rules_id_seq \in {s \in {Len(rules), Len(rules) + 1} : s >= 1}
    /\ yearly_portfolios = {}
    /\ rule_backtest_metrics = {}
    /\ pc = "idle"
    /\ session = <<>>
    /\ call = NoCall

\* what tweak_rule tells its caller, and what the caller finds
TweakRuleReturns(original, before, log, original_after, ret) ==
    [fn |-> "tweak_rule", original |-> original, before |-> before, log |-> log,
     original_after |-> original_after, ret |-> ret]

\* no rule in the table, or the picked rule has no filters: return None
TweakReturnsNone(original) ==
    /\ pc = "idle"
    /\ call.fn = ""
    /\ rules = <<>> \/ (original \in 1..Len(rules) /\ rules[original] = <<>>)
    /\ call' = TweakRuleReturns(original, rules, <<>>, <<>>, Ok(None))
    /\ UNCHANGED <<metrics, financials, prices, rules, rules_id_seq, yearly_portfolios,
                   rule_backtest_metrics, pc, session>>

\* session.query(Rule).all(), random.choice(rules), the copy of its
\* rule_json and random.randint(1, max_tweaks): every row is loaded as an
\* object whose rule_json refers to a list of its own
TweakBegin(original, n) ==
    /\ pc = "idle"
    /\ call.fn = ""
    /\ Len(rules) < MaxRules
    /\ original \in 1..Len(rules)
    /\ rules[original] # <<>>
    /\ pc' = "tweak"
    /\ session' = [objects  |-> [i \in 1..Len(rules) |-> i],
                   heap     |-> rules,
                   original |-> original,
                   filters  |-> dict_copy([i \in 1..Len(rules) |-> i], rules, original),
                   left     |-> n,
                   log      |-> <<>>]
    /\ call' = NoCall
    /\ UNCHANGED <<metrics, financials, prices, rules, rules_id_seq, yearly_portfolios,
                   rule_backtest_metrics>>

\* one pass of the tweak loop: f = random.choice(filters) is changed in place
TweakOnce(i, tweak_type, draw) ==
    /\ pc = "tweak"
    /\ session.left > 0
    /\ i \in 1..Len(session.heap[session.filters])
    /\ session' =
          [session EXCEPT
              !.heap[session.filters][i] = tweaked_filter(@, tweak_type, draw),
              !.left = @ - 1,
              !.log  = Append(@, [i |-> i, tweak_type |-> tweak_type, draw |-> draw])]
    /\ call' = NoCall
    /\ UNCHANGED <<metrics, financials, prices, rules, rules_id_seq, yearly_portfolios,
                   rule_backtest_metrics, pc>>

\* the table and the sequence after _safe_commit with new_rule pending: the
\* flush, and on a duplicate key the rollback, the setval and the retry
safe_commit(table, seq, objects, heap, new_json) ==
    LET f == flush(rows_after_updates(table, objects, heap), seq, <<new_json>>)
    IN  IF f.ok THEN f
        ELSE flush(table, Len(table) + 1, pending_after_rollback(<<new_json>>))

\* session.add(new_rule), _safe_commit(session), the print that reloads the
\* expired original_rule, and return new_rule
TweakCommit ==
    /\ pc = "tweak"
    /\ session.left = 0
    /\ rules' = safe_commit(rules, rules_id_seq, session.objects, session.heap,
                            session.heap[session.filters]).rules
    /\ rules_id_seq' = safe_commit(rules, rules_id_seq, session.objects, session.heap,
                                   session.heap[session.filters]).seq
    /\ call' = TweakRuleReturns(session.original, rules, session.log,
                                rules'[session.original],
                                Ok(session.heap[session.filters]))
    /\ pc' = "idle"
    /\ session' = <<>>
    /\ UNCHANGED <<metrics, financials, prices, yearly_portfolios, rule_backtest_metrics>>

\* the commit raises an IntegrityError that is no duplicate key, or the retry
\* raises: the error propagates and the session closes
TweakCommitRaises ==
    /\ pc = "tweak"
    /\ session.left = 0
    /\ call' = TweakRuleReturns(session.original, rules, session.log, <<>>, Raise)
    /\ pc' = "idle"
    /\ session' = <<>>
    /\ UNCHANGED <<metrics, financials, prices, rules, rules_id_seq, yearly_portfolios,
                   rule_backtest_metrics>>

NextTweak ==
    \/ \E original \in 0..(MaxRules - 1) : TweakReturnsNone(original)
    \/ \E original \in 1..(MaxRules - 1), n \in 1..max_tweaks : TweakBegin(original, n)
    \/ \E i \in 1..2, tweak_type \in TweakTypes :
          \E draw \in TweakDraws(tweak_type) : TweakOnce(i, tweak_type, draw)
    \/ TweakCommit
    \/ TweakCommitRaises

SpecTweak == InitTweak /\ [][NextTweak]_vars

\* the filters after the tweaks of the log, applied to a list of one's own
RECURSIVE ApplyTweaks(_, _)
ApplyTweaks(filters, log) ==
    IF log = <<>> THEN filters
    ELSE ApplyTweaks([filters EXCEPT ![log[1].i] =
                         tweaked_filter(@, log[1].tweak_type, log[1].draw)],
                     Tail(log))

\* tweak_rule returned a new rule
TweakReturned == call.fn = "tweak_rule" /\ call.ret.ok /\ call.log # <<>>

\* C22: tweak_rule leaves the rule it picked unchanged. After the call the
\* filter clauses of the original rule object, and of every stored rule that
\* was there before, are what they were, and the new rule alone carries the
\* tweaked values
C22_OriginalRuleUnchanged ==
    TweakReturned =>
        /\ call.original_after = call.before[call.original]
        /\ \A i \in 1..Len(call.before) : rules[i] = call.before[i]
        /\ call.ret.v = ApplyTweaks(call.before[call.original], call.log)

\* a call that changed a sign, a threshold or a period and stored the new
\* rule
C22_Witness ==
    /\ TweakReturned
    /\ call.ret.v # call.before[call.original]
    /\ Len(rules) = Len(call.before) + 1
    /\ rules[Len(rules)] = call.ret.v

====
